---- MODULE Spec2Model ----
(***************************************************************************)
(* The tool-calling convergence loop of HW1/main.py: get_completion_loop   *)
(* with its tool functions, the tool registry (available_functions) and    *)
(* the JSON conversions it applies to arguments and results.               *)
(*                                                                         *)
(* The reasoning engine (client.chat.completions.create) is the            *)
(* environment: each call either raises a transport error or returns one   *)
(* assistant message whose tool_calls are drawn from ToolCallPool.         *)
(* The print() calls of the loop write to stdout only and are not modelled.*)
(***************************************************************************)
EXTENDS Integers, Sequences, FiniteSets, TLC

\* ------------------------------------------------------------------ bounds
\* Largest max_iterations a caller passes (0..MaxIter).
MaxIter == 2
\* Largest number of tool calls one engine response lists.
MaxCalls == 2

\* ------------------------------------------------------------- JSON values
\* A JSON object is a sequence of members [k, v] in insertion order (Python
\* dicts keep insertion order); a member value is a string or a number kept
\* by its literal text.
None == "None"
JStr(s) == [t |-> "str", v |-> s]
JNum(lit) == [t |-> "num", v |-> lit]
Member(k, v) == [k |-> k, v |-> v]

\* json.dumps of a member value: strings are quoted, numbers are bare.
dumps_value(x) == IF x.t = "str" THEN "\"" \o x.v \o "\"" ELSE x.v

RECURSIVE dumps_members(_)
dumps_members(d) ==
    IF Len(d) = 0 THEN ""
    ELSE IF Len(d) = 1 THEN "\"" \o d[1].k \o "\": " \o dumps_value(d[1].v)
    ELSE "\"" \o d[1].k \o "\": " \o dumps_value(d[1].v) \o ", " \o dumps_members(Tail(d))

\* json.dumps(obj) with the default separators (", " and ": ").
json_dumps(d) == "{" \o dumps_members(d) \o "}"

\* The serialized argument strings the engine may send.
ArgsCompact202 == "{\"product_id\":\"202\"}"
ArgsSpaced202 == "{\"product_id\": \"202\"}"
ArgsSpaced999 == "{\"product_id\": \"999\"}"
ArgsEmpty == "{}"
ArgsTruncated == "{\"product_id\": "

\* json.loads(text): the parsed object, or JSONDecodeError on malformed text.
json_loads(text) ==
    CASE text = ArgsCompact202 -> [ok |-> TRUE, value |-> <<Member("product_id", JStr("202"))>>]
      [] text = ArgsSpaced202 -> [ok |-> TRUE, value |-> <<Member("product_id", JStr("202"))>>]
      [] text = ArgsSpaced999 -> [ok |-> TRUE, value |-> <<Member("product_id", JStr("999"))>>]
      [] text = ArgsEmpty -> [ok |-> TRUE, value |-> <<>>]
      [] OTHER -> [ok |-> FALSE, value |-> <<>>]

\* ------------------------------------------------------------ mock tables
MOCK_DB ==
    [ p101 |-> <<Member("name", JStr("Bluetooth Speaker")),
                 Member("description", JStr("Portable speaker with deep bass")),
                 Member("price", JNum("59.99"))>>,
      p202 |-> <<Member("name", JStr("Noise Cancelling Headphones")),
                 Member("description", JStr("High fidelity wireless ANC headphones")),
                 Member("price", JNum("129.99"))>>,
      p303 |-> <<Member("name", JStr("Smart Fitness Watch")),
                 Member("description", JStr("Tracks heart rate, sleep, and activity")),
                 Member("price", JNum("89.99"))>> ]

MOCK_DISCOUNTS == [ p101 |-> 50, p202 |-> 20, p303 |-> 15 ]

\* The table key of a product id ("101" -> p101); ids outside the tables
\* have no key.  product_id is the parsed member value; only a string can
\* equal a table key.
KeyOf(product_id) ==
    IF product_id.t # "str" THEN None
    ELSE CASE product_id.v = "101" -> "p101"
           [] product_id.v = "202" -> "p202"
           [] product_id.v = "303" -> "p303"
           [] OTHER -> None

get_product_info(product_id) ==
    IF KeyOf(product_id) \in DOMAIN MOCK_DB
    THEN MOCK_DB[KeyOf(product_id)]
    ELSE <<Member("error", JStr("Product not found"))>>

get_discount(product_id) ==
    IF KeyOf(product_id) \in DOMAIN MOCK_DISCOUNTS
    THEN <<Member("discount_percentage", JNum(ToString(MOCK_DISCOUNTS[KeyOf(product_id)])))>>
    ELSE <<Member("discount_percentage", JNum("0"))>>

\* The tool registry: the names that are keys of available_functions.
available_functions_WithPrice == {"get_product_info", "get_discount", "get_price"}

available_functions == {"get_product_info", "get_discount"}

\* function_to_call(**function_args): the keyword arguments must be exactly
\* the parameter product_id, else Python raises TypeError.
BindsProductId(function_args) ==
    Len(function_args) = 1 /\ function_args[1].k = "product_id"

call_function(function_name, function_args) ==
    IF function_name = "get_product_info"
    THEN get_product_info(function_args[1].v)
    ELSE get_discount(function_args[1].v)

\* ------------------------------------------------------ engine responses
\* A tool call as the engine lists it: id, type, function.name and the
\* serialized function.arguments.
ToolCall(id, name, arguments) ==
    [id |-> id, type |-> "function",
     function |-> [name |-> name, arguments |-> arguments]]

\* The requests the engine may emit: two dispatchable ones, a tool name
\* outside the registry, arguments the function rejects, and arguments that
\* do not parse.
ToolCallPool ==
    { ToolCall("call_1", "get_product_info", ArgsCompact202),
      ToolCall("call_2", "get_discount", ArgsSpaced202),
      ToolCall("call_3", "get_price", ArgsSpaced999),
      ToolCall("call_4", "get_discount", ArgsEmpty),
      ToolCall("call_5", "get_product_info", ArgsTruncated) }

RECURSIVE SeqsUpTo(_, _)
SeqsUpTo(S, n) ==
    IF n = 0 THEN {<<>>}
    ELSE LET shorter == SeqsUpTo(S, n - 1)
         IN shorter \cup { Append(s, x) : s \in {t \in shorter : Len(t) = n - 1}, x \in S }

\* response.choices[0].message: an assistant message with text content and
\* no tool calls, or with tool calls and no content.
FinalTexts == {"copy A", "copy B"}

EngineMessages ==
    { [role |-> "assistant", content |-> c, tool_calls |-> <<>>] : c \in FinalTexts }
    \cup
    { [role |-> "assistant", content |-> None, tool_calls |-> tcs] :
        tcs \in SeqsUpTo(ToolCallPool, MaxCalls) \ {<<>>} }

\* -------------------------------------------------------------- the loop
VARIABLES
    messages,        \* the caller's message list, mutated in place
    max_iterations,  \* the argument of get_completion_loop
    iteration,       \* the for-loop counter over range(max_iterations)
    pc,              \* "for" | "tools" | "returned" | "raised"
    msg,             \* response.choices[0].message of the current round-trip
    tool_index,      \* position of the inner for-loop in msg.tool_calls
    result,          \* the value returned by get_completion_loop
    error,           \* the exception raised out of get_completion_loop
    engine_calls,    \* history: number of client.chat.completions.create calls
    responses,       \* history: the engine messages received, in order
    sent,            \* history: the message list passed to each engine call
    dispatches       \* history: each function lookup/call, with the list length then

vars == <<messages, max_iterations, iteration, pc, msg, tool_index, result, error,
          engine_calls, responses, sent, dispatches>>

InitialMessages ==
    << [role |-> "system",
        content |-> "You are an e-shop marketing copywriter. Write short promotional campaign texts."],
       [role |-> "user", content |-> "Write a campaign text for product 202."] >>

NoMsg == [role |-> "none", content |-> None, tool_calls |-> <<>>]
NoError == [type |-> "none", message |-> "", attached |-> <<>>]

\* An exception value: its class, its message, and the conversation states
\* attached to it (Python's exceptions here carry none).
Raise(type, message) == [type |-> type, message |-> message, attached |-> <<>>]

Init ==
    /\ messages = InitialMessages
    /\ max_iterations \in 0..MaxIter
    /\ iteration = 0
    /\ pc = "for"
    /\ msg = NoMsg
    /\ tool_index = 0
    /\ result = NoMsg
    /\ error = NoError
    /\ engine_calls = 0
    /\ responses = <<>>
    /\ sent = <<>>
    /\ dispatches = <<>>

AssistantMessage_NameAsId(tool_id, function_name, function_args) ==
    [role |-> "assistant",
     tool_calls |-> << [id |-> function_name, type |-> "function",
                        function |-> [name |-> function_name,
                                      arguments |-> json_dumps(function_args)]] >>]

\* The assistant message the loop builds for one tool call (lines 102-114):
\* one request, its arguments re-serialized from the parsed value.
AssistantMessage(tool_id, function_name, function_args) ==
    [role |-> "assistant",
     tool_calls |-> << [id |-> tool_id, type |-> "function",
                        function |-> [name |-> function_name,
                                      arguments |-> json_dumps(function_args)]] >>]

\* The tool message the loop builds for one tool call (lines 116-121).
ToolMessage(tool_id, function_name, function_result) ==
    [role |-> "tool", tool_call_id |-> tool_id, name |-> function_name,
     content |-> json_dumps(function_result)]

\* The two list.append calls of one tool call, in program order.
AppendBoth_Prepend(list, assistant_message, tool_message) ==
    <<assistant_message, tool_message>> \o list

AppendBoth_ToolOnly(list, assistant_message, tool_message) ==
    Append(list, tool_message)

AppendBoth_ToolFirst(list, assistant_message, tool_message) ==
    list \o <<tool_message, assistant_message>>

AppendBoth(list, assistant_message, tool_message) ==
    Append(Append(list, assistant_message), tool_message)

\* range(max_iterations): the for loop runs its body while the counter is
\* below max_iterations.
InRange_Inclusive(i, n) == i <= n

InRange(i, n) == i < n

\* The for-loop counter after one pass of the inner loop: it advances when
\* the inner loop has handled the last tool call of the response.
IterationAfter_PerToolCall(i, last) == i + 1

IterationAfter(i, last) == IF last THEN i + 1 ELSE i

\* Whether the inner for loop has reached the last element of tool_calls.
LastToolCall_Always(i, tool_calls) == TRUE

LastToolCall(i, tool_calls) == i = Len(tool_calls)

\* The exception raised when the for loop runs out (line 123).
ExhaustionError == Raise("Exception", "Max iterations reached without completion.")

\* One engine round-trip that returns a message (lines 76-87): the list is
\* sent as it is; a message without tool calls is returned, otherwise the
\* inner loop starts at the first tool call.
EngineRespond(m) ==
    /\ pc = "for"
    /\ InRange(iteration, max_iterations)
    /\ engine_calls' = engine_calls + 1
    /\ sent' = Append(sent, messages)
    /\ responses' = Append(responses, m)
    /\ msg' = m
    /\ IF Len(m.tool_calls) = 0
       THEN /\ pc' = "returned"
            /\ result' = m
            /\ tool_index' = tool_index
       ELSE /\ pc' = "tools"
            /\ result' = result
            /\ tool_index' = 1
    /\ UNCHANGED <<messages, max_iterations, iteration, error, dispatches>>

\* The engine call raises (transport or API failure); nothing catches it.
EngineFail ==
    /\ pc = "for"
    /\ InRange(iteration, max_iterations)
    /\ engine_calls' = engine_calls + 1
    /\ sent' = Append(sent, messages)
    /\ pc' = "raised"
    /\ error' = Raise("APIError", "engine call failed")
    /\ UNCHANGED <<messages, max_iterations, iteration, msg, tool_index, result,
                   responses, dispatches>>

\* The for loop ends without a return (line 123).
Exhaust ==
    /\ pc = "for"
    /\ ~InRange(iteration, max_iterations)
    /\ pc' = "raised"
    /\ error' = ExhaustionError
    /\ UNCHANGED <<messages, max_iterations, iteration, msg, tool_index, result,
                   engine_calls, responses, sent, dispatches>>

\* One pass of the inner loop (lines 89-121) for msg.tool_calls[tool_index]:
\* parse the arguments, look the function up, call it, then append the
\* assistant message and the tool message.  Each of the first three steps
\* may raise, and the exception leaves get_completion_loop.
HandleToolCall ==
    /\ pc = "tools"
    /\ LET tool_call == msg.tool_calls[tool_index]
           function_name == tool_call.function.name
           parsed == json_loads(tool_call.function.arguments)
           function_args == parsed.value
           tool_id == tool_call.id
           last == LastToolCall(tool_index, msg.tool_calls)
       IN IF ~parsed.ok
          THEN /\ pc' = "raised"
               /\ error' = Raise("JSONDecodeError", "Expecting value")
               /\ UNCHANGED <<messages, iteration, tool_index, dispatches>>
          ELSE IF function_name \notin available_functions
          THEN /\ pc' = "raised"
               /\ error' = Raise("KeyError", function_name)
               /\ dispatches' = Append(dispatches,
                     [id |-> tool_id, name |-> function_name, round |-> engine_calls,
                      at |-> Len(messages), called |-> FALSE])
               /\ UNCHANGED <<messages, iteration, tool_index>>
          ELSE IF ~BindsProductId(function_args)
          THEN /\ pc' = "raised"
               /\ error' = Raise("TypeError", "missing or unexpected keyword argument")
               /\ dispatches' = Append(dispatches,
                     [id |-> tool_id, name |-> function_name, round |-> engine_calls,
                      at |-> Len(messages), called |-> FALSE])
               /\ UNCHANGED <<messages, iteration, tool_index>>
          ELSE /\ messages' = AppendBoth(messages,
                     AssistantMessage(tool_id, function_name, function_args),
                     ToolMessage(tool_id, function_name,
                                 call_function(function_name, function_args)))
               /\ dispatches' = Append(dispatches,
                     [id |-> tool_id, name |-> function_name, round |-> engine_calls,
                      at |-> Len(messages), called |-> TRUE])
               /\ error' = error
               /\ iteration' = IterationAfter(iteration, last)
               /\ IF last
                  THEN /\ pc' = "for"
                       /\ tool_index' = tool_index
                  ELSE /\ pc' = "tools"
                       /\ tool_index' = tool_index + 1
    /\ UNCHANGED <<max_iterations, msg, result, engine_calls, responses, sent>>

Next ==
    \/ \E m \in EngineMessages : EngineRespond(m)
    \/ EngineFail
    \/ Exhaust
    \/ HandleToolCall

Spec == Init /\ [][Next]_vars

\* ------------------------------------------------------------ vocabulary
Terminal == pc \in {"returned", "raised"}

HasToolCalls(m) == Len(m.tool_calls) > 0

IsPrefix(s, t) == Len(s) <= Len(t) /\ SubSeq(t, 1, Len(s)) = s

\* The loop ended by running out of iterations.
Exhausted == pc = "raised" /\ error.message = ExhaustionError.message

DispatchErrorTypes == {"KeyError", "TypeError", "JSONDecodeError"}

\* The dispatches that called their function.
Called == SelectSeq(dispatches, LAMBDA d : d.called)

\* The messages the list gained between engine call j and engine call j+1.
Gained(j) == SubSeq(sent[j + 1], Len(sent[j]) + 1, Len(sent[j + 1]))

\* The messages the list gained since the latest engine call.
GainedSinceLast == SubSeq(messages, Len(sent[Len(sent)]) + 1, Len(messages))

IsTool(m) == m.role = "tool"

ToolIds(ms) ==
    LET ts == SelectSeq(ms, IsTool) IN [i \in 1..Len(ts) |-> ts[i].tool_call_id]

RequestIds(tcs) == [i \in 1..Len(tcs) |-> tcs[i].id]

\* The three ways a request of the pool fails to dispatch.
UnknownTool(tc) == tc.function.name \notin {"get_product_info", "get_discount"}
Unparsable(tc) == tc.function.arguments = ArgsTruncated
Rejected(tc) == tc.function.arguments = ArgsEmpty
Undispatchable(tc) == UnknownTool(tc) \/ Unparsable(tc) \/ Rejected(tc)

\* ms is one (assistant, tool) pair per request of tcs, in order, each
\* assistant message bearing that single request.
PairsFor(ms, tcs) ==
    /\ Len(ms) = 2 * Len(tcs)
    /\ \A i \in 1..Len(tcs) :
          /\ ms[2 * i - 1].role = "assistant"
          /\ Len(ms[2 * i - 1].tool_calls) = 1
          /\ ms[2 * i - 1].tool_calls[1].id = tcs[i].id
          /\ ms[2 * i - 1].tool_calls[1].function.name = tcs[i].function.name
          /\ ms[2 * i - 1].tool_calls[1].function.arguments
                = json_dumps(json_loads(tcs[i].function.arguments).value)
          /\ ms[2 * i].role = "tool"
          /\ ms[2 * i].tool_call_id = tcs[i].id

\* ----------------------------------------------------------------- C1
\* C1 (convergence): a response without tool calls is always the latest
\* one, and the loop has then returned exactly that message after as many
\* engine calls as responses, with no error and nothing left to do; the
\* loop returns in no other case, and the exhaustion error is raised only
\* after max_iterations responses that all carried tool calls.
C1_Convergence ==
    /\ \A k \in 1..Len(responses) :
          ~HasToolCalls(responses[k]) =>
             /\ k = Len(responses)
             /\ pc = "returned"
             /\ result = responses[k]
             /\ engine_calls = k
             /\ k <= max_iterations
             /\ error = NoError
             /\ ~ENABLED Next
    /\ pc = "returned" =>
          /\ Len(responses) >= 1
          /\ ~HasToolCalls(responses[Len(responses)])
    /\ Exhausted =>
          /\ Len(responses) = max_iterations
          /\ \A k \in 1..Len(responses) : HasToolCalls(responses[k])

C1_Witness ==
    /\ pc = "returned"
    /\ Len(responses) = 2
    /\ Len(responses[1].tool_calls) = 2
    /\ result.content = "copy B"

\* ----------------------------------------------------------------- C2
\* C2 (exhaustion): the number of engine calls never exceeds
\* max_iterations; one response costs one unit of budget however many tool
\* calls it lists; once max_iterations responses all carried tool calls the
\* loop makes no further engine call and ends raised after exactly
\* max_iterations engine calls, with the exhaustion error when every
\* request was dispatched.
C2_Exhaustion ==
    /\ engine_calls <= max_iterations
    /\ engine_calls = Len(sent)
    /\ iteration <= engine_calls /\ engine_calls <= iteration + 1
    /\ Exhausted =>
          /\ engine_calls = max_iterations
          /\ Len(responses) = max_iterations
    /\ ( /\ Len(responses) = max_iterations
         /\ \A k \in 1..Len(responses) : HasToolCalls(responses[k]) ) =>
          /\ pc # "returned"
          /\ engine_calls = max_iterations
          /\ ~ENABLED (\E m \in EngineMessages : EngineRespond(m))
          /\ ~ENABLED EngineFail
          /\ pc = "for" => ENABLED Exhaust
          /\ pc = "raised" => (Exhausted \/ error.type \in DispatchErrorTypes)

C2_Witness ==
    /\ Exhausted
    /\ max_iterations = 2
    /\ engine_calls = 2
    /\ Len(Called) = 4

\* ----------------------------------------------------------------- C3
\* C3 (multi-call per turn): at every engine call after the first, and
\* whenever the loop is back at the head of the for loop or has run out,
\* the tool-role messages gained since the previous engine call carry the
\* ids of that response's requests, one each, in the listed order.
C3_MultiCallPerTurn ==
    /\ \A j \in 1..(Len(sent) - 1) :
          ToolIds(Gained(j)) = RequestIds(responses[j].tool_calls)
    /\ ((pc = "for" \/ Exhausted) /\ Len(responses) >= 1) =>
          ToolIds(GainedSinceLast) = RequestIds(responses[Len(responses)].tool_calls)

C3_Witness ==
    /\ Len(sent) = 2
    /\ Len(responses[1].tool_calls) = 2
    /\ responses[1].tool_calls[1].id = "call_2"
    /\ responses[1].tool_calls[2].id = "call_1"

\* ----------------------------------------------------------------- C4
\* C4 (unknown tool handling), as claimed: a request naming a tool outside
\* available_functions does not end the loop with an exception and yields a
\* tool-role message tagged with the request's id.
C4_UnknownToolFolded ==
    \A i \in 1..Len(dispatches) :
        dispatches[i].name \notin available_functions =>
           /\ pc # "raised"
           /\ \E p \in (dispatches[i].at + 1)..Len(messages) :
                 /\ messages[p].role = "tool"
                 /\ messages[p].tool_call_id = dispatches[i].id

\* ----------------------------------------------------------------- C5
\* C5 (assistant message first), as claimed: per response with n tool calls
\* the list gains one assistant message bearing all n requests, then n
\* tool-role messages, and that assistant message is in the list before
\* any request of the response is dispatched.
C5_AssistantMessageFirst ==
    /\ \A j \in 1..(Len(sent) - 1) :
          LET g == Gained(j)
              tcs == responses[j].tool_calls
          IN /\ Len(g) = Len(tcs) + 1
             /\ g[1].role = "assistant"
             /\ g[1].tool_calls = tcs
             /\ \A i \in 1..Len(tcs) : g[i + 1].role = "tool"
    /\ \A i \in 1..Len(dispatches) :
          dispatches[i].at > Len(sent[dispatches[i].round])

\* C5 amended: per response with n dispatchable tool calls the list gains n
\* (assistant, tool) pairs in request order, each assistant message bearing
\* only its own request (id, name, arguments re-serialized from the parsed
\* value), and each pair is appended after its request was dispatched.
C5_PairPerToolCall ==
    /\ \A j \in 1..(Len(sent) - 1) : PairsFor(Gained(j), responses[j].tool_calls)
    /\ \A i \in 1..Len(dispatches) :
          dispatches[i].called =>
             /\ Len(messages) >= dispatches[i].at + 2
             /\ messages[dispatches[i].at + 1].role = "assistant"
             /\ messages[dispatches[i].at + 1].tool_calls[1].id = dispatches[i].id
             /\ messages[dispatches[i].at + 2].role = "tool"
             /\ messages[dispatches[i].at + 2].tool_call_id = dispatches[i].id

C5_Witness ==
    /\ Len(sent) = 2
    /\ Len(responses[1].tool_calls) = 2
    /\ responses[1].tool_calls[1].id = "call_1"
    /\ Len(Gained(1)) = 4
    /\ Gained(1)[1].tool_calls[1].function.arguments
          # responses[1].tool_calls[1].function.arguments

\* ----------------------------------------------------------------- C6
\* C6 (append-only): in every step the message list before the step is a
\* prefix of the list after it, so its length never decreases and the
\* caller's initial messages stay at the front.
C6_AppendOnly ==
    [][IsPrefix(messages, messages') /\ IsPrefix(InitialMessages, messages')]_vars

C6_Witness ==
    /\ pc = "raised"
    /\ error.type = "KeyError"
    /\ Len(messages) = Len(InitialMessages) + 6

\* ----------------------------------------------------------------- C7
\* C7 (tool-result correlation): every tool-role message has an earlier
\* assistant message listing a request with its id; and the result of a
\* request of round-trip k sits after an assistant message of that
\* round-trip bearing the request and inside the list sent by engine call
\* k+1.
C7_Correlation ==
    /\ \A i \in 1..Len(messages) :
          messages[i].role = "tool" =>
             \E j \in 1..(i - 1) :
                /\ messages[j].role = "assistant"
                /\ \E c \in 1..Len(messages[j].tool_calls) :
                      messages[j].tool_calls[c].id = messages[i].tool_call_id
    /\ \A i \in 1..Len(dispatches) :
          LET d == dispatches[i] IN
          d.called =>
             \E t \in (Len(sent[d.round]) + 1)..Len(messages) :
                /\ messages[t].role = "tool"
                /\ messages[t].tool_call_id = d.id
                /\ \E a \in (Len(sent[d.round]) + 1)..(t - 1) :
                      /\ messages[a].role = "assistant"
                      /\ messages[a].tool_calls[1].id = d.id
                /\ d.round < Len(sent) => t <= Len(sent[d.round + 1])

C7_Witness ==
    /\ Len(sent) = 2
    /\ Len(messages) = Len(InitialMessages) + 4
    /\ messages[4].role = "tool"
    /\ messages[6].role = "tool"
    /\ messages[4].tool_call_id # messages[6].tool_call_id

\* ----------------------------------------------------------------- C8
\* C8 (exhaustion error carries state), as claimed: the exhaustion error is
\* of a kind no other failure has and carries the message list as it is at
\* the moment of failure.
C8_ExhaustionCarriesState ==
    Exhausted =>
       /\ error.type \notin (DispatchErrorTypes \cup {"APIError"})
       /\ error.attached = <<messages>>

\* ----------------------------------------------------------------- C9
\* C9 (partial progress): a request that cannot be dispatched is never
\* passed over; when request j of the latest response fails, the loop is
\* over with the matching exception, no engine call follows, and the list
\* is the list sent in the latest engine call plus exactly the pairs of
\* requests 1..j-1.
C9_PartialProgress ==
    /\ (pc = "raised" /\ error.type \in DispatchErrorTypes) =>
          LET k == Len(responses)
              tcs == responses[k].tool_calls
              j == tool_index
          IN /\ Undispatchable(tcs[j])
             /\ \A i \in 1..(j - 1) : ~Undispatchable(tcs[i])
             /\ error.type = IF Unparsable(tcs[j]) THEN "JSONDecodeError"
                              ELSE IF UnknownTool(tcs[j]) THEN "KeyError"
                              ELSE "TypeError"
             /\ engine_calls = k
             /\ Len(sent) = k
             /\ ~ENABLED Next
             /\ IsPrefix(sent[k], messages)
             /\ PairsFor(GainedSinceLast, SubSeq(tcs, 1, j - 1))
    /\ pc = "tools" =>
          \A i \in 1..(tool_index - 1) : ~Undispatchable(msg.tool_calls[i])
    /\ \A k \in 1..Len(responses) :
          (k < Len(responses) \/ pc \in {"for", "returned"} \/ Exhausted) =>
             \A i \in 1..Len(responses[k].tool_calls) :
                ~Undispatchable(responses[k].tool_calls[i])

C9_Witness ==
    /\ pc = "raised"
    /\ error.type = "KeyError"
    /\ tool_index = 2
    /\ Len(responses) = 2
    /\ Len(messages) = Len(sent[2]) + 2

\* ----------------------------------------------------------------- C10
\* C10 (convergence leaves the conversation untouched): on return the list
\* is the list sent in the last engine call, the returned message is not in
\* it, and its length is the initial length plus two per dispatched tool
\* call; with max_iterations = 0 no engine call is made, the list stays the
\* initial one and the only outcome is the exhaustion error.
C10_ConvergenceFrame ==
    /\ pc = "returned" =>
          /\ messages = sent[Len(sent)]
          /\ \A i \in 1..Len(messages) : messages[i] # result
          /\ Len(Called) = Len(dispatches)
          /\ Len(messages) = Len(InitialMessages) + 2 * Len(dispatches)
    /\ max_iterations = 0 =>
          /\ engine_calls = 0
          /\ messages = InitialMessages
          /\ pc \in {"for", "raised"}
          /\ pc = "raised" => error = ExhaustionError

C10_Witness ==
    /\ pc = "returned"
    /\ Len(responses) = 2
    /\ Len(dispatches) = 2
    /\ Len(messages) = Len(InitialMessages) + 4

====
